---- MODULE Spec2Model ----
(***************************************************************************)
(* Deliverable generation / review / iteration pipeline of the Apex AI     *)
(* Marketing back office (backend/tasks/content_tasks.py) together with    *)
(* the approval endpoints of backend/api/content.py.                       *)
(*                                                                         *)
(* Scores are Python floats.  The review score arithmetic is modelled as   *)
(* IEEE-754 binary64 arithmetic (round to nearest, ties to even) on        *)
(* arbitrary-precision naturals, because the gate compares a rounded sum   *)
(* with 7.0.                                                               *)
(***************************************************************************)
EXTENDS Integers, Sequences, FiniteSets, TLC

(***************************************************************************)
(* Arbitrary-precision naturals: little-endian sequences of limbs in base  *)
(* 2^15, without high zero limbs (zero is the empty sequence).             *)
(***************************************************************************)
LimbBase == 32768

RECURSIVE Pow2(_)
Pow2(k) == IF k = 0 THEN 1 ELSE 2 * Pow2(k - 1)

RECURSIVE BNorm(_)
BNorm(x) ==
    IF x = <<>> THEN <<>>
    ELSE IF x[Len(x)] = 0 THEN BNorm(SubSeq(x, 1, Len(x) - 1))
    ELSE x

BFromInt(n) ==
    BNorm(<<n % LimbBase, (n \div LimbBase) % LimbBase,
            n \div (LimbBase * LimbBase)>>)

Limb(x, i) == IF i <= Len(x) THEN x[i] ELSE 0

RECURSIVE BAddFrom(_, _, _, _)
BAddFrom(x, y, i, carry) ==
    IF i > Len(x) /\ i > Len(y)
    THEN (IF carry = 0 THEN <<>> ELSE <<carry>>)
    ELSE LET s == Limb(x, i) + Limb(y, i) + carry
         IN  <<s % LimbBase>> \o BAddFrom(x, y, i + 1, s \div LimbBase)

BAdd(x, y) == BNorm(BAddFrom(x, y, 1, 0))

RECURSIVE BMulSmallFrom(_, _, _, _)
BMulSmallFrom(x, k, i, carry) ==
    IF i > Len(x)
    THEN (IF carry = 0 THEN <<>> ELSE <<carry>>)
    ELSE LET p == x[i] * k + carry
         IN  <<p % LimbBase>> \o BMulSmallFrom(x, k, i + 1, p \div LimbBase)

\* x * k for 0 <= k < 2^15
BMulSmall(x, k) == BNorm(BMulSmallFrom(x, k, 1, 0))

Zeros(n) == [i \in 1..n |-> 0]

RECURSIVE BMulFrom(_, _, _)
BMulFrom(x, y, j) ==
    IF j > Len(y) THEN <<>>
    ELSE BAdd(BNorm(Zeros(j - 1) \o BMulSmall(x, y[j])), BMulFrom(x, y, j + 1))

BMul(x, y) == BMulFrom(x, y, 1)

\* number of significant bits of a limb value 0 <= v < 2^15
RECURSIVE LimbBits(_)
LimbBits(v) == IF v = 0 THEN 0 ELSE 1 + LimbBits(v \div 2)

BitLen(x) == IF x = <<>> THEN 0 ELSE 15 * (Len(x) - 1) + LimbBits(x[Len(x)])

\* x * 2^k
BShl(x, k) ==
    IF x = <<>> THEN <<>>
    ELSE Zeros(k \div 15) \o BMulSmall(x, Pow2(k % 15))

\* floor(x / d) for 0 < d <= 2^15, limbs taken from the high end
RECURSIVE BDivSmallFrom(_, _, _, _)
BDivSmallFrom(x, d, i, rem) ==
    IF i = 0 THEN <<>>
    ELSE LET cur == rem * LimbBase + x[i]
         IN  BDivSmallFrom(x, d, i - 1, cur % d) \o <<cur \div d>>

BDivSmall(x, d) == BNorm(BDivSmallFrom(x, d, Len(x), 0))

RECURSIVE BModSmallFrom(_, _, _, _)
BModSmallFrom(x, d, i, rem) ==
    IF i = 0 THEN rem
    ELSE BModSmallFrom(x, d, i - 1, (rem * LimbBase + x[i]) % d)

BModSmall(x, d) == BModSmallFrom(x, d, Len(x), 0)

\* floor(x / 2^k)
BShr(x, k) ==
    LET drop == k \div 15
    IN  IF drop >= Len(x) THEN <<>>
        ELSE BDivSmall(SubSeq(x, drop + 1, Len(x)), Pow2(k % 15))

\* TRUE iff x is not a multiple of 2^k
BLowBitsSet(x, k) ==
    LET drop == k \div 15
    IN  \/ \E i \in 1..drop : Limb(x, i) # 0
        \/ Limb(x, drop + 1) % Pow2(k % 15) # 0

BOdd(x) == x # <<>> /\ x[1] % 2 = 1

RECURSIVE BLessFrom(_, _, _)
BLessFrom(x, y, i) ==
    IF i = 0 THEN FALSE
    ELSE IF x[i] # y[i] THEN x[i] < y[i]
    ELSE BLessFrom(x, y, i - 1)

\* x < y
BLess(x, y) ==
    IF Len(x) # Len(y) THEN Len(x) < Len(y) ELSE BLessFrom(x, y, Len(x))

(***************************************************************************)
(* binary64 values >= 0: [m, e] stands for m * 2^e with m < 2^53 (zero is  *)
(* m = <<>>).  The values here lie far inside the normal range, so there   *)
(* is no overflow, underflow or subnormal case.                            *)
(***************************************************************************)
MantissaBits == 53

\* the binary64 nearest to n * 2^e (round to nearest, ties to even)
FRound(n, e) ==
    LET len == BitLen(n)
    IN  IF len <= MantissaBits THEN [m |-> n, e |-> e]
        ELSE LET k     == len - MantissaBits
                 q     == BShr(n, k)
                 guard == BOdd(BShr(n, k - 1))
                 low   == BLowBitsSet(n, k - 1)
                 up    == guard /\ (low \/ BOdd(q))
             IN  [m |-> IF up THEN BAdd(q, BFromInt(1)) ELSE q, e |-> e + k]

\* float("<num>/<den>") for a decimal literal: the binary64 nearest to
\* num / den, 0 < den <= 2^15.  The quotient keeps 60 or more bits and a
\* sticky bit for the remainder, so the single rounding of FRound is exact.
FFromDecimal(num, den) ==
    IF num = 0 THEN [m |-> <<>>, e |-> 0]
    ELSE LET sh     == 75
             scaled == BShl(BFromInt(num), sh)
             q      == BDivSmall(scaled, den)
             sticky == IF BModSmall(scaled, den) = 0 THEN 0 ELSE 1
         IN  FRound(BAdd(BShl(q, 1), BFromInt(sticky)), 0 - sh - 1)

\* a * b in binary64
FMul(a, b) == FRound(BMul(a.m, b.m), a.e + b.e)

\* a + b in binary64
FAdd(a, b) ==
    LET lo == IF a.e <= b.e THEN a.e ELSE b.e
    IN  FRound(BAdd(BShl(a.m, a.e - lo), BShl(b.m, b.e - lo)), lo)

\* a < b
FLess(a, b) ==
    LET lo == IF a.e <= b.e THEN a.e ELSE b.e
    IN  BLess(BShl(a.m, a.e - lo), BShl(b.m, b.e - lo))

\* a >= b
FGeq(a, b) == ~FLess(a, b)

\* a = b as numbers
FEq(a, b) == ~FLess(a, b) /\ ~FLess(b, a)


(***************************************************************************)
(* Review score arithmetic (content_tasks.py, review_deliverable).         *)
(* A score is written in hundredths: Score(583) is float("5.83").          *)
(***************************************************************************)
Score(h) == FFromDecimal(h, 100)

BRAND_VOICE_WEIGHT == FFromDecimal(4, 10)

QUALITY_WEIGHT == FFromDecimal(6, 10)

APPROVAL_THRESHOLD == FFromDecimal(70, 10)

\* combined_score = brand_voice_score * 0.4 + quality_score * 0.6
combined_score(bv, q) ==
    FAdd(FMul(Score(bv), BRAND_VOICE_WEIGHT), FMul(Score(q), QUALITY_WEIGHT))

\* a gate that a score of exactly 7.0 fails
passed_strict(combined) == FLess(APPROVAL_THRESHOLD, combined)

passed(combined) == FGeq(combined, APPROVAL_THRESHOLD)

\* "in_review" if combined_score >= 7.0 else "draft"
review_status(combined) == IF passed(combined) THEN "in_review" ELSE "draft"


(***************************************************************************)
(* State.  store is the committed content of the deliverables table, the   *)
(* id of a row being its index; result is what the most recent invocation  *)
(* returned or raised.  Each task opens its own session and commits once,  *)
(* so an invocation that raises before its commit leaves store unchanged.  *)
(* clients is the status column of the clients table; audit_run is the     *)
(* run_full_audit invocation in flight: its position, its retry count, the *)
(* rows its session has flushed and not committed, what its helper calls   *)
(* returned and the calls it made.                                         *)
(* workers holds the Review and Iteration invocations that have read     *)
(* their row and await their agent call, each with the row as it read it,  *)
(* and counts the revisions committed by such invocations.                 *)
(* Timestamps, the language and the model name are not modelled.           *)
(***************************************************************************)
VARIABLES store, result, clients, audit_run, workers

vars == <<store, result, clients, audit_run, workers>>

\* rows the store may hold in SpecGen
MaxDeliverables == 2

\* if iteration_count > 5
MAX_ITERATIONS == 5

\* (deliverable.body or "")[:500]
EXCERPT_LEN == 500

\* deliverable_type values of the requests: one kind both lookup tables
\* know and one that neither knows
Kinds == {"article", "podcast"}

\* engine_engagements rows, and the engagement ids requests may carry
EngineEngagements == {"e1"}

EngagementRequests == {"e1", "e404"}

\* engagement.deliverables["schedule"] of the active engagements
Schedule ==
    [e1 |-> <<[type |-> "article", status |-> "pending"],
              [type |-> "report", status |-> "done"]>>]

\* Texts are numbered; text t has TextLen(t) characters.
TextLen(t) == 300 * t

GenBodies == {1, 2}

\* ai cost values in units of 0.0001 (the column is Numeric(8, 4))
Costs == {0, 150}

Feedbacks == {"tighten intro"}

\* scores, in hundredths, the two review sub-checks return in Spec
BrandVoiceScores == {500, 800, 900}

QualityScores == {600, 800}

\* scores, in hundredths, drawn in SpecReview
ReviewScores == {0, 460, 499, 500, 582, 583, 600, 700, 800, 860, 900, 1000}

(***************************************************************************)
(* The four agent helpers stand for the Completion Service: each call      *)
(* either raises or returns one of a few results.                          *)
(***************************************************************************)
Raised == [raised |-> TRUE, body |-> 0, cost |-> 0, score |-> 0]

\* _invoke_agent
InvokeAgentResults ==
    {[raised |-> FALSE, body |-> b, cost |-> c, score |-> 0] :
        b \in GenBodies, c \in Costs} \cup {Raised}

\* _invoke_agent_iteration: a revision is a text other than the original
InvokeAgentIterationResults(original_body) ==
    {[raised |-> FALSE, body |-> original_body + 1, cost |-> c, score |-> 0] :
        c \in Costs} \cup {Raised}

\* what the Completion Service charges for a review sub-check
CheckCosts == {150}

\* _check_brand_voice and _quality_gate_review.  The dict they return has
\* a score and no cost; cost is what the Completion Service charged for
\* the call.
CheckResults(scores) ==
    {[raised |-> FALSE, body |-> 0, cost |-> c, score |-> s] :
        s \in scores, c \in CheckCosts} \cup {Raised}

(***************************************************************************)
(* Helpers for Python dicts: a dict is a function on its keys.             *)
(***************************************************************************)
DictGet(d, k, default) == IF k \in DOMAIN d THEN d[k] ELSE default

\* {**d, **upd}
DictMerge(d, upd) ==
    [k \in DOMAIN d \cup DOMAIN upd |-> IF k \in DOMAIN upd THEN upd[k] ELSE d[k]]

\* AGENT_MAP of generate_deliverable
AGENT_MAP_generate ==
    [content_brief |-> "content_engine", article |-> "content_engine",
     blog_post |-> "content_engine", email_sequence |-> "email_sequence_builder",
     ad_copy |-> "paid_performance", seo_page |-> "seo_architect",
     landing_page |-> "seo_architect", social_post |-> "social_media",
     video_script |-> "video_script", gmb_post |-> "local_visibility",
     report |-> "reporting", audit_report |-> "infrastructure_auditor"]

\* AGENT_MAP of iterate_deliverable
AGENT_MAP_iterate ==
    [content_brief |-> "content_engine", article |-> "content_engine",
     blog_post |-> "content_engine", email_sequence |-> "email_sequence_builder",
     ad_copy |-> "paid_performance", seo_page |-> "seo_architect",
     landing_page |-> "seo_architect", social_post |-> "social_media",
     video_script |-> "video_script", gmb_post |-> "local_visibility",
     report |-> "reporting", audit_report |-> "infrastructure_auditor",
     proposal |-> "proposal_builder"]

\* a lookup with another default
generate_agent_name_reporting(deliverable_type) ==
    DictGet(AGENT_MAP_generate, deliverable_type, "reporting")

\* agent_name = AGENT_MAP.get(deliverable_type, "content_engine")
generate_agent_name(deliverable_type) ==
    DictGet(AGENT_MAP_generate, deliverable_type, "content_engine")

\* agent_name = AGENT_MAP.get(deliverable.type, "content_engine")
iterate_agent_name(deliverable_type) ==
    DictGet(AGENT_MAP_iterate, deliverable_type, "content_engine")

Ids == 1..Len(store)

\* ids a request may name: the stored rows and one id no row has
RequestIds == 1..(Len(store) + 1)

NoNotes == [kind |-> "none"]

\* what an invocation did besides writing the store: the value it returned,
\* the number of agent helper calls it made, what the Completion Service
\* charged for the calls that returned, and the tasks it enqueued
\* a return after which an Iteration has enqueued a Review of its row
Returned_enqueues_review(op, args, value, calls) ==
    [op |-> op, args |-> args, outcome |-> "ok", value |-> value,
     agent_calls |-> calls, spent |-> 0,
     enqueued |-> IF op = "iterate" THEN <<<<"review", args[1]>>>> ELSE <<>>]

Returned(op, args, value, calls) ==
    [op |-> op, args |-> args, outcome |-> "ok", value |-> value,
     agent_calls |-> calls, spent |-> 0, enqueued |-> <<>>]

\* raise self.retry(exc=exc) of a task, HTTPException of an endpoint
Failed(op, args, outcome, calls) ==
    [op |-> op, args |-> args, outcome |-> outcome, value |-> [error |-> outcome],
     agent_calls |-> calls, spent |-> 0, enqueued |-> <<>>]

\* the invocation r, whose agent calls were charged cost
Charged(r, cost) == [r EXCEPT !.spent = cost]

\* clients rows, and the client ids requests may carry
Clients == {"c1"}

ClientRequests == {"c1", "c404"}

\* the dict a helper of steps 1 to 3 returns
HelperOutput(text) == [markdown |-> text, structured_data |-> [sections |-> text]]

\* no output: a helper that raised, a step not yet run
NoOutput == HelperOutput(0)

\* no run_full_audit invocation is queued or running
NoAuditRun ==
    [pc |-> "idle", client_id |-> "none", retries |-> 0, session |-> <<>>,
     audit_data |-> NoOutput, strategy |-> NoOutput, proposal |-> NoOutput,
     calls |-> <<>>]

\* no invocation awaits its agent call
NoWorkers == [running |-> <<>>, revisions |-> 0]

Init ==
    /\ store = <<>>
    /\ result = [op |-> "none", args |-> <<>>, outcome |-> "none",
                 value |-> [error |-> "none"], agent_calls |-> 0,
                 spent |-> 0, enqueued |-> <<>>]
    /\ clients = [c \in Clients |-> "lead"]
    /\ audit_run = NoAuditRun
    /\ workers = NoWorkers


(***************************************************************************)
(* Generation Stage: generate_deliverable                                  *)
(***************************************************************************)
\* Deliverable(...) as generate_deliverable stores it
NewDeliverable(engine_engagement_id, deliverable_type, agent_name, generated) ==
    [engine_engagement_id |-> engine_engagement_id,
     type          |-> deliverable_type,
     title         |-> <<"Generated", deliverable_type>>,
     body          |-> generated.body,
     meta_data     |-> [agent |-> agent_name, deliverable_type |-> deliverable_type],
     status        |-> "draft",
     review_notes  |-> NoNotes,
     ai_agent_used |-> agent_name,
     ai_cost       |-> generated.cost]

\* a generation that commits its row before it awaits the agent
generate_deliverable_commits_first(engine_engagement_id, deliverable_type, generated) ==
    LET args       == <<engine_engagement_id, deliverable_type>>
        agent_name == generate_agent_name(deliverable_type)
    IN  IF engine_engagement_id \notin EngineEngagements
        THEN /\ store' = store
             /\ result' = Failed("generate", args, "retry", 0)
        ELSE /\ store' = Append(store,
                    NewDeliverable(engine_engagement_id, deliverable_type,
                                   agent_name, generated))
             /\ result' = IF generated.raised
                          THEN Failed("generate", args, "retry", 1)
                          ELSE Charged(Returned("generate", args,
                                   [deliverable_id |-> Len(store) + 1,
                                    type           |-> deliverable_type,
                                    status         |-> "draft",
                                    agent_used     |-> agent_name], 1),
                                   generated.cost)

generate_deliverable(engine_engagement_id, deliverable_type, generated) ==
    LET args       == <<engine_engagement_id, deliverable_type>>
        agent_name == generate_agent_name(deliverable_type)
    IN  IF engine_engagement_id \notin EngineEngagements
        THEN \* raise ValueError("EngineEngagement ... not found")
             /\ store' = store
             /\ result' = Failed("generate", args, "retry", 0)
        ELSE IF generated.raised
        THEN /\ store' = store
             /\ result' = Failed("generate", args, "retry", 1)
        ELSE /\ store' = Append(store,
                    NewDeliverable(engine_engagement_id, deliverable_type,
                                   agent_name, generated))
             /\ result' = Charged(Returned("generate", args,
                    [deliverable_id |-> Len(store) + 1,
                     type           |-> deliverable_type,
                     status         |-> "draft",
                     agent_used     |-> agent_name], 1), generated.cost)

\* generate_deliverable without engine_engagement_id:
\* _process_scheduled_deliverables enqueues one generation per pending item
RECURSIVE PendingItems(_, _)
PendingItems(engagement_id, items) ==
    IF items = <<>> THEN <<>>
    ELSE (IF Head(items).status = "pending"
          THEN <<[engine_engagement_id |-> engagement_id,
                  deliverable_type |-> Head(items).type]>>
          ELSE <<>>) \o PendingItems(engagement_id, Tail(items))

process_scheduled_deliverables ==
    LET processed == PendingItems("e1", Schedule["e1"])
    IN  /\ store' = store
        /\ result' = [Returned("scheduled_scan", <<>>,
                          [scheduled_count |-> Len(processed)], 0)
                      EXCEPT !.enqueued = processed]

(***************************************************************************)
(* Review Stage: review_deliverable                                        *)
(***************************************************************************)
AllScores == BrandVoiceScores \cup QualityScores \cup ReviewScores

\* combined_score and the status it gives, for every pair of scores
ReviewOutcome ==
    [bv \in AllScores, q \in AllScores |->
        LET combined == combined_score(bv, q)
        IN  [combined_score |-> combined,
             status         |-> review_status(combined),
             passed         |-> passed(combined)]]

\* a review that keeps the entry of an earlier review
Reviewed_keeps_first(deliverable, brand_voice_score, quality_score) ==
    LET outcome == ReviewOutcome[brand_voice_score, quality_score]
    IN  [deliverable EXCEPT
            !.review_notes = [kind |-> "review",
                              brand_voice_score |-> brand_voice_score,
                              quality_score |-> quality_score],
            !.status = outcome.status,
            !.meta_data = DictMerge(
                [review |-> [brand_voice_score |-> brand_voice_score,
                             quality_score     |-> quality_score,
                             combined_score    |-> outcome.combined_score]],
                deliverable.meta_data)]

\* a review that also rewrites the body
Reviewed_rewrites_body(deliverable, brand_voice_score, quality_score) ==
    LET outcome == ReviewOutcome[brand_voice_score, quality_score]
    IN  [deliverable EXCEPT
            !.body = deliverable.body + 1,
            !.review_notes = [kind |-> "review",
                              brand_voice_score |-> brand_voice_score,
                              quality_score |-> quality_score],
            !.status = outcome.status,
            !.meta_data = DictMerge(deliverable.meta_data,
                [review |-> [brand_voice_score |-> brand_voice_score,
                             quality_score     |-> quality_score,
                             combined_score    |-> outcome.combined_score]])]

\* a review that adds a charge to the cost of the row
Reviewed_adds_cost(deliverable, brand_voice_score, quality_score) ==
    LET outcome == ReviewOutcome[brand_voice_score, quality_score]
    IN  [deliverable EXCEPT
            !.ai_cost = deliverable.ai_cost + 150,
            !.review_notes = [kind |-> "review",
                              brand_voice_score |-> brand_voice_score,
                              quality_score |-> quality_score],
            !.status = outcome.status,
            !.meta_data = DictMerge(deliverable.meta_data,
                [review |-> [brand_voice_score |-> brand_voice_score,
                             quality_score     |-> quality_score,
                             combined_score    |-> outcome.combined_score]])]

\* a review that stores its entry as the whole metadata
Reviewed_resets_meta(deliverable, brand_voice_score, quality_score) ==
    LET outcome == ReviewOutcome[brand_voice_score, quality_score]
    IN  [deliverable EXCEPT
            !.review_notes = [kind |-> "review",
                              brand_voice_score |-> brand_voice_score,
                              quality_score |-> quality_score],
            !.status = outcome.status,
            !.meta_data =
                [review |-> [brand_voice_score |-> brand_voice_score,
                             quality_score     |-> quality_score,
                             combined_score    |-> outcome.combined_score]]]

\* the row as review_deliverable commits it.  review_notes also holds the
\* combined score formatted to one decimal and the feedback texts, which
\* are left out.
Reviewed(deliverable, brand_voice_score, quality_score) ==
    LET outcome == ReviewOutcome[brand_voice_score, quality_score]
    IN  [deliverable EXCEPT
            !.review_notes = [kind |-> "review",
                              brand_voice_score |-> brand_voice_score,
                              quality_score |-> quality_score],
            !.status = outcome.status,
            !.meta_data = DictMerge(deliverable.meta_data,
                [review |-> [brand_voice_score |-> brand_voice_score,
                             quality_score     |-> quality_score,
                             combined_score    |-> outcome.combined_score]])]

\* the review entries meta_data holds: meta_data["review"], when present
score_history(deliverable) ==
    IF "review" \in DOMAIN deliverable.meta_data
    THEN <<deliverable.meta_data["review"]>>
    ELSE <<>>

\* a review that stores the brand voice score before the quality gate returns
review_deliverable_partial(deliverable_id, brand_voice_result, quality_result) ==
    LET args == <<deliverable_id>>
    IN  IF deliverable_id \notin Ids
        THEN /\ store' = store
             /\ result' = Failed("review", args, "retry", 0)
        ELSE IF brand_voice_result.raised
        THEN /\ store' = store
             /\ result' = Failed("review", args, "retry", 1)
        ELSE IF quality_result.raised
        THEN /\ store' = [store EXCEPT ![deliverable_id].review_notes =
                            [kind |-> "review",
                             brand_voice_score |-> brand_voice_result.score,
                             quality_score |-> 0]]
             /\ result' = Failed("review", args, "retry", 2)
        ELSE LET outcome == ReviewOutcome[brand_voice_result.score,
                                          quality_result.score]
                 reviewed == Reviewed(store[deliverable_id],
                                      brand_voice_result.score,
                                      quality_result.score)
             IN  /\ store' = [store EXCEPT ![deliverable_id] = reviewed]
                 /\ result' = Returned("review", args,
                        [deliverable_id    |-> deliverable_id,
                         combined_score    |-> outcome.combined_score,
                         brand_voice_score |-> brand_voice_result.score,
                         quality_score     |-> quality_result.score,
                         status            |-> reviewed.status,
                         passed            |-> outcome.passed], 2)

review_deliverable(deliverable_id, brand_voice_result, quality_result) ==
    LET args == <<deliverable_id>>
    IN  IF deliverable_id \notin Ids
        THEN \* raise ValueError("Deliverable ... not found")
             /\ store' = store
             /\ result' = Failed("review", args, "retry", 0)
        ELSE IF brand_voice_result.raised
        THEN /\ store' = store
             /\ result' = Failed("review", args, "retry", 1)
        ELSE IF quality_result.raised
        THEN /\ store' = store
             /\ result' = Charged(Failed("review", args, "retry", 2),
                                  brand_voice_result.cost)
        ELSE LET outcome == ReviewOutcome[brand_voice_result.score,
                                          quality_result.score]
                 reviewed == Reviewed(store[deliverable_id],
                                      brand_voice_result.score,
                                      quality_result.score)
             IN  /\ store' = [store EXCEPT ![deliverable_id] = reviewed]
                 /\ result' = Charged(Returned("review", args,
                        [deliverable_id    |-> deliverable_id,
                         combined_score    |-> outcome.combined_score,
                         brand_voice_score |-> brand_voice_result.score,
                         quality_score     |-> quality_result.score,
                         status            |-> reviewed.status,
                         passed            |-> outcome.passed], 2),
                        brand_voice_result.cost + quality_result.cost)


(***************************************************************************)
(* Iteration Stage: iterate_deliverable                                    *)
(***************************************************************************)
Min(a, b) == IF a <= b THEN a ELSE b

\* (deliverable.body or "")[:500]
body_excerpt(body) == [text |-> body, chars |-> Min(TextLen(body), EXCERPT_LEN)]

\* meta.get("iteration_count", 0)
stored_iteration_count(deliverable) ==
    DictGet(deliverable.meta_data, "iteration_count", 0)

\* a ceiling test that is off by one
over_ceiling_late(iteration_count) == iteration_count > MAX_ITERATIONS + 1

\* if iteration_count > 5
over_ceiling(iteration_count) == iteration_count > MAX_ITERATIONS

\* the row as the ceiling branch commits it
Escalated(deliverable, iteration_count, feedback) ==
    [deliverable EXCEPT
        !.status = "in_review",
        !.review_notes = [kind |-> "escalation",
                          iteration_count |-> iteration_count,
                          feedback |-> feedback]]

\* (deliverable.ai_cost or 0) + revised.get("cost", 0): ai_cost is read back
\* as a Decimal and the agent's cost is a float, so the sum raises TypeError
\* unless the stored cost is falsy (0)
cost_sum_raises(deliverable) == deliverable.ai_cost # 0

\* an iteration that numbers its version-log entries from one
Iterated_numbers_from_one(deliverable, iteration_count, feedback, revised) ==
    LET meta     == deliverable.meta_data
        versions == Append(DictGet(meta, "versions", <<>>),
                        [iteration    |-> iteration_count,
                         body_excerpt |-> body_excerpt(deliverable.body),
                         feedback     |-> feedback])
    IN  [deliverable EXCEPT
            !.body = revised.body,
            !.title = <<"Revised", deliverable.type>>,
            !.status = "draft",
            !.meta_data = DictMerge(meta,
                [iteration_count |-> iteration_count, versions |-> versions]),
            !.ai_cost = 0 + revised.cost]

\* the row as a successful iteration commits it
Iterated(deliverable, iteration_count, feedback, revised) ==
    LET meta     == deliverable.meta_data
        versions == Append(DictGet(meta, "versions", <<>>),
                        [iteration    |-> iteration_count - 1,
                         body_excerpt |-> body_excerpt(deliverable.body),
                         feedback     |-> feedback])
    IN  [deliverable EXCEPT
            !.body = revised.body,
            !.title = <<"Revised", deliverable.type>>,
            !.status = "draft",
            !.meta_data = DictMerge(meta,
                [iteration_count |-> iteration_count, versions |-> versions]),
            !.ai_cost = 0 + revised.cost]

iterate_deliverable(deliverable_id, feedback, revised) ==
    LET args == <<deliverable_id, feedback>>
    IN  IF deliverable_id \notin Ids
        THEN \* raise ValueError("Deliverable ... not found")
             /\ store' = store
             /\ result' = Failed("iterate", args, "retry", 0)
        ELSE LET deliverable     == store[deliverable_id]
                 iteration_count == stored_iteration_count(deliverable) + 1
                 agent_name      == iterate_agent_name(deliverable.type)
             IN  IF over_ceiling(iteration_count)
                 THEN /\ store' = [store EXCEPT ![deliverable_id] =
                              Escalated(deliverable, iteration_count, feedback)]
                      /\ result' = Returned("iterate", args,
                              [deliverable_id  |-> deliverable_id,
                               iteration_count |-> iteration_count,
                               status          |-> "escalated"], 0)
                 ELSE IF revised.raised
                 THEN /\ store' = store
                      /\ result' = Failed("iterate", args, "retry", 1)
                 ELSE IF cost_sum_raises(deliverable)
                 THEN \* TypeError: Decimal + float, caught and retried
                      /\ store' = store
                      /\ result' = Charged(
                              [Failed("iterate", args, "retry", 1)
                                  EXCEPT !.value = [error |-> "TypeError"]],
                              revised.cost)
                 ELSE /\ store' = [store EXCEPT ![deliverable_id] =
                              Iterated(deliverable, iteration_count, feedback,
                                       revised)]
                      /\ result' = Charged(Returned("iterate", args,
                              [deliverable_id  |-> deliverable_id,
                               iteration_count |-> iteration_count,
                               status          |-> "draft",
                               agent_used      |-> agent_name], 1),
                              revised.cost)

(***************************************************************************)
(* Approval endpoints of api/content.py.  Only the status column they      *)
(* write is a column of the deliverables table.  The generic update        *)
(* endpoint (PUT), which assigns whatever status the caller sends, lies    *)
(* outside the pipeline and is not modelled.                               *)
(***************************************************************************)
Endpoint(op, id, allowed, new_status) ==
    IF id \notin Ids
    THEN /\ store' = store
         /\ result' = Failed(op, <<id>>, "http404", 0)
    ELSE IF store[id].status \notin allowed
    THEN /\ store' = store
         /\ result' = Failed(op, <<id>>, "http400", 0)
    ELSE /\ store' = [store EXCEPT ![id].status = new_status]
         /\ result' = Returned(op, <<id>>, [status |-> new_status], 0)

\* a submission that also accepts an approved Deliverable
submit_for_review_from_approved(id) ==
    Endpoint("submit_for_review", id, {"draft", "rejected", "approved"}, "in_review")

submit_for_review(id) ==
    Endpoint("submit_for_review", id, {"draft", "rejected"}, "in_review")

\* an approval that also accepts a draft
approve_deliverable_from_draft(id) ==
    Endpoint("approve", id, {"in_review", "draft"}, "approved")

approve_deliverable(id) ==
    Endpoint("approve", id, {"in_review"}, "approved")

reject_deliverable(id) ==
    Endpoint("reject", id, {"in_review"}, "rejected")

(***************************************************************************)
(* Full audit: run_full_audit of tasks/audit_tasks.py.  The task runs its  *)
(* four steps in one session and commits once, after the quality gate.     *)
(* Each step below is the code up to and including one awaited helper call *)
(* and the session.add / flush that follows it.  audit_run.calls keeps the *)
(* helper calls of the current or the last attempt: the helper, the        *)
(* outputs of earlier steps it was given, and what it returned.            *)
(***************************************************************************)
\* completed audit runs the store may hold in SpecAudit
MaxAuditRuns == 2

\* max_retries=2
FULL_AUDIT_MAX_RETRIES == 2

\* texts the helpers of steps 1 to 3 return
AuditReports == {1, 2}

StrategyTexts == {1}

ProposalTexts == {1}

\* scores, in hundredths, the quality gate returns
AuditScores == {0, 690, 700, 800}

\* _generate_full_audit, _run_strategy_architect, _build_proposal
AuditHelperResults(texts) ==
    {[raised |-> FALSE, text |-> t, score |-> 0] : t \in texts}
        \cup {[raised |-> TRUE, text |-> 0, score |-> 0]}

\* _run_quality_gate
QualityGateResults ==
    {[raised |-> FALSE, text |-> 0, score |-> s] : s \in AuditScores}
        \cup {[raised |-> TRUE, text |-> 0, score |-> 0]}

\* quality_result.get("score", 0) >= 7.0
AUDIT_GATE_THRESHOLD == FFromDecimal(70, 10)

GateOutcome == [s \in AuditScores |-> FGeq(Score(s), AUDIT_GATE_THRESHOLD)]

\* a gate that a score of exactly 7.0 fails
gate_passed_strict(score) == score # 700 /\ GateOutcome[score]

gate_passed(score) == GateOutcome[score]

\* "in_review" if gate_passed else "draft"
final_status(score) == IF gate_passed(score) THEN "in_review" ELSE "draft"

\* Deliverable(...) as the steps of run_full_audit add it to the session;
\* ai_cost is left unset (None), written 0
AuditDeliverable(client_id, type, output, agent) ==
    [client_id     |-> client_id,
     engine_engagement_id |-> "none",
     type          |-> type,
     title         |-> <<type, client_id>>,
     body          |-> output.markdown,
     meta_data     |-> output.structured_data,
     status        |-> "draft",
     review_notes  |-> NoNotes,
     ai_agent_used |-> agent,
     ai_cost       |-> 0]

HelperCall(helper, context, returned) ==
    [helper |-> helper, context |-> context, raised |-> returned.raised,
     output |-> IF returned.raised THEN NoOutput ELSE HelperOutput(returned.text)]

\* a failure handler that gives up at once
full_audit_retry_stops(calls) ==
    /\ store' = store
    /\ clients' = clients
    /\ audit_run' = [NoAuditRun EXCEPT !.calls = calls]
    /\ result' = Failed("run_full_audit", <<audit_run.client_id>>, "failed",
                        Len(calls))

\* a failure handler that commits the rows flushed so far
full_audit_retry_keeps_rows(calls) ==
    /\ store' = store \o audit_run.session
    /\ clients' = clients
    /\ IF audit_run.retries < FULL_AUDIT_MAX_RETRIES
       THEN /\ audit_run' = [NoAuditRun EXCEPT
                                !.pc = "queued",
                                !.client_id = audit_run.client_id,
                                !.retries = audit_run.retries + 1,
                                !.calls = calls]
            /\ result' = Failed("run_full_audit", <<audit_run.client_id>>,
                                "retry", Len(calls))
       ELSE /\ audit_run' = [NoAuditRun EXCEPT !.calls = calls]
            /\ result' = Failed("run_full_audit", <<audit_run.client_id>>,
                                "failed", Len(calls))

\* except Exception as exc: raise self.retry(exc=exc).  The session closes
\* without a commit, so the rows it flushed are rolled back; the task is
\* queued again while retries are left and fails after the last one.
full_audit_retry(calls) ==
    /\ store' = store
    /\ clients' = clients
    /\ IF audit_run.retries < FULL_AUDIT_MAX_RETRIES
       THEN /\ audit_run' = [NoAuditRun EXCEPT
                                !.pc = "queued",
                                !.client_id = audit_run.client_id,
                                !.retries = audit_run.retries + 1,
                                !.calls = calls]
            /\ result' = Failed("run_full_audit", <<audit_run.client_id>>,
                                "retry", Len(calls))
       ELSE /\ audit_run' = [NoAuditRun EXCEPT !.calls = calls]
            /\ result' = Failed("run_full_audit", <<audit_run.client_id>>,
                                "failed", Len(calls))

\* run_full_audit.delay(client_id)
run_full_audit_delay(client_id) ==
    /\ audit_run.pc = "idle"
    /\ Len(store) < 3 * MaxAuditRuns
    /\ audit_run' = [NoAuditRun EXCEPT !.pc = "queued", !.client_id = client_id]
    /\ UNCHANGED <<store, result, clients>>

\* a worker takes the task: select(Client)
run_full_audit_begin ==
    /\ audit_run.pc = "queued"
    /\ IF audit_run.client_id \notin Clients
       THEN \* raise ValueError("Client ... not found")
            full_audit_retry(<<>>)
       ELSE /\ audit_run' = [audit_run EXCEPT !.pc = "step1", !.calls = <<>>]
            /\ UNCHANGED <<store, result, clients>>

\* Step 1: _generate_full_audit(client), audit_deliverable
full_audit_step1(returned) ==
    /\ audit_run.pc = "step1"
    /\ LET calls == Append(audit_run.calls,
                        HelperCall("_generate_full_audit", <<>>, returned))
           audit_data == HelperOutput(returned.text)
       IN  IF returned.raised
           THEN full_audit_retry(calls)
           ELSE /\ audit_run' = [audit_run EXCEPT
                        !.pc = "step2",
                        !.audit_data = audit_data,
                        !.calls = calls,
                        !.session = Append(@,
                            AuditDeliverable(audit_run.client_id, "audit_report",
                                audit_data, "infrastructure_auditor"))]
                /\ UNCHANGED <<store, result, clients>>

\* a strategy step that is given the report text without the structured data
strategy_architect_args_summary(audit_data) == <<[markdown |-> audit_data.markdown]>>

\* the outputs passed in _run_strategy_architect(client, audit_data)
strategy_architect_args(audit_data) == <<audit_data>>

\* Step 2: _run_strategy_architect(client, audit_data), strategy_deliverable
full_audit_step2(returned) ==
    /\ audit_run.pc = "step2"
    /\ LET calls == Append(audit_run.calls,
                        HelperCall("_run_strategy_architect",
                            strategy_architect_args(audit_run.audit_data),
                            returned))
           strategy == HelperOutput(returned.text)
       IN  IF returned.raised
           THEN full_audit_retry(calls)
           ELSE /\ audit_run' = [audit_run EXCEPT
                        !.pc = "step3",
                        !.strategy = strategy,
                        !.calls = calls,
                        !.session = Append(@,
                            AuditDeliverable(audit_run.client_id,
                                "strategy_document", strategy,
                                "strategy_architect"))]
                /\ UNCHANGED <<store, result, clients>>

\* Step 3: _build_proposal(client, audit_data, strategy), proposal_deliverable
full_audit_step3(returned) ==
    /\ audit_run.pc = "step3"
    /\ LET calls == Append(audit_run.calls,
                        HelperCall("_build_proposal",
                            <<audit_run.audit_data, audit_run.strategy>>,
                            returned))
           proposal == HelperOutput(returned.text)
       IN  IF returned.raised
           THEN full_audit_retry(calls)
           ELSE /\ audit_run' = [audit_run EXCEPT
                        !.pc = "step4",
                        !.proposal = proposal,
                        !.calls = calls,
                        !.session = Append(@,
                            AuditDeliverable(audit_run.client_id, "proposal",
                                proposal, "proposal_builder"))]
                /\ UNCHANGED <<store, result, clients>>

\* the rows of the session as the commit stores them: the three statuses,
\* and review_notes of the audit report and of the proposal
\* a gate that leaves the strategy document as it was flushed
GatedRows_skips_strategy(session, status) ==
    [k \in 1..Len(session) |->
        IF session[k].type = "strategy_document"
        THEN session[k]
        ELSE [session[k] EXCEPT !.status = status,
                                !.review_notes = [kind |-> "quality_gate"]]]

GatedRows(session, status) ==
    [k \in 1..Len(session) |->
        [session[k] EXCEPT
            !.status = status,
            !.review_notes = IF session[k].type = "strategy_document"
                             THEN @ ELSE [kind |-> "quality_gate"]]]

\* Step 4: _run_quality_gate(audit_deliverable, strategy_deliverable,
\* proposal_deliverable), the statuses, the client's status and the commit
full_audit_step4(quality_result) ==
    /\ audit_run.pc = "step4"
    /\ LET calls == Append(audit_run.calls,
                        [helper |-> "_run_quality_gate",
                         context |-> audit_run.session,
                         raised |-> quality_result.raised,
                         output |-> NoOutput])
       IN  IF quality_result.raised
           THEN full_audit_retry(calls)
           ELSE /\ store' = store \o GatedRows(audit_run.session,
                                     final_status(quality_result.score))
                /\ clients' = [clients EXCEPT ![audit_run.client_id] =
                        IF gate_passed(quality_result.score)
                        THEN "audit_delivered" ELSE "audit_requested"]
                /\ audit_run' = [NoAuditRun EXCEPT !.calls = calls]
                /\ result' = Returned("run_full_audit", <<audit_run.client_id>>,
                        [audit_id       |-> Len(store) + 1,
                         strategy_id    |-> Len(store) + 2,
                         proposal_id    |-> Len(store) + 3,
                         quality_score  |-> quality_result.score,
                         quality_passed |-> gate_passed(quality_result.score),
                         status         |-> final_status(quality_result.score),
                         client_id      |-> audit_run.client_id], 4)

(***************************************************************************)
(* Specifications                                                          *)
(***************************************************************************)
Generate ==
    /\ \E e \in EngagementRequests, t \in Kinds, g \in InvokeAgentResults :
            generate_deliverable(e, t, g)
    /\ UNCHANGED <<clients, audit_run, workers>>

ScheduledScan ==
    /\ process_scheduled_deliverables
    /\ UNCHANGED <<clients, audit_run, workers>>

Review ==
    /\ \E id \in RequestIds :
        \E bv \in CheckResults(BrandVoiceScores), q \in CheckResults(QualityScores) :
            review_deliverable(id, bv, q)
    /\ UNCHANGED <<clients, audit_run, workers>>

OriginalBody(id) == IF id \in Ids THEN store[id].body ELSE 0

Iterate ==
    /\ \E id \in RequestIds, fb \in Feedbacks :
        \E revised \in InvokeAgentIterationResults(OriginalBody(id)) :
            iterate_deliverable(id, fb, revised)
    /\ UNCHANGED <<clients, audit_run, workers>>

Submit ==
    /\ \E id \in RequestIds : submit_for_review(id)
    /\ UNCHANGED <<clients, audit_run, workers>>

Approve ==
    /\ \E id \in RequestIds : approve_deliverable(id)
    /\ UNCHANGED <<clients, audit_run, workers>>

Reject ==
    /\ \E id \in RequestIds : reject_deliverable(id)
    /\ UNCHANGED <<clients, audit_run, workers>>

ReviewWide ==
    /\ \E id \in RequestIds :
        \E bv \in CheckResults(ReviewScores), q \in CheckResults(ReviewScores) :
            review_deliverable(id, bv, q)
    /\ UNCHANGED <<clients, audit_run, workers>>

GenerateFirst == store = <<>> /\ Generate

GenerateBounded == Len(store) < MaxDeliverables /\ Generate

\* Every handler reads and writes only the row whose id it is given, so
\* Spec follows the stages and the approval endpoints on a store of one
\* row; SpecGen lets generation fill the store with MaxDeliverables rows.
Next ==
    \/ GenerateFirst
    \/ ScheduledScan
    \/ Review
    \/ Iterate
    \/ Submit
    \/ Approve
    \/ Reject

Spec == Init /\ [][Next]_vars

\* generation only, on a growing store
NextGen ==
    \/ GenerateBounded
    \/ ScheduledScan

SpecGen == Init /\ [][NextGen]_vars

\* the Review Stage over the wider score set ReviewScores
NextReview ==
    \/ GenerateFirst
    \/ ReviewWide

SpecReview == Init /\ [][NextReview]_vars

FullAuditDelay ==
    /\ \E client_id \in ClientRequests : run_full_audit_delay(client_id)
    /\ UNCHANGED workers

FullAuditBegin ==
    /\ run_full_audit_begin
    /\ UNCHANGED workers

FullAuditStep1 ==
    /\ \E returned \in AuditHelperResults(AuditReports) : full_audit_step1(returned)
    /\ UNCHANGED workers

FullAuditStep2 ==
    /\ \E returned \in AuditHelperResults(StrategyTexts) : full_audit_step2(returned)
    /\ UNCHANGED workers

FullAuditStep3 ==
    /\ \E returned \in AuditHelperResults(ProposalTexts) : full_audit_step3(returned)
    /\ UNCHANGED workers

FullAuditStep4 ==
    /\ \E quality_result \in QualityGateResults : full_audit_step4(quality_result)
    /\ UNCHANGED workers

\* revisions an audit run's rows may receive in SpecAuditIterate
MaxAuditRevisions == 1

\* the one full audit run of SpecAuditIterate is enqueued
FullAuditDelayFirst ==
    /\ store = <<>>
    /\ FullAuditDelay

\* iterate_deliverable on the rows a full audit run committed
IterateBounded ==
    /\ \A id \in Ids : stored_iteration_count(store[id]) < MaxAuditRevisions
    /\ Iterate

\* one full audit run, then Iterations on its Deliverables
NextAuditIterate ==
    \/ FullAuditDelayFirst
    \/ FullAuditBegin
    \/ FullAuditStep1
    \/ FullAuditStep2
    \/ FullAuditStep3
    \/ FullAuditStep4
    \/ IterateBounded

SpecAuditIterate == Init /\ [][NextAuditIterate]_vars

(***************************************************************************)
(* Completion Service: AIService.generate of services/ai_service.py.  One  *)
(* call makes up to max_retries attempts of messages.create.  api is what  *)
(* the API answers to the attempts, in order: a message ("ok"),            *)
(* RateLimitError, another APIStatusError, or an exception the loop does   *)
(* not catch (a connection error, a timeout).                              *)
(***************************************************************************)
max_retries == 3

\* answers the API has ready for one call
OfferedAttempts == 4

AttemptOutcomes == {"ok", "rate_limit", "api_status", "other_error"}

RECURSIVE Tuples(_, _)
Tuples(n, S) ==
    IF n = 0 THEN {<<>>}
    ELSE {Append(t, x) : t \in Tuples(n - 1, S), x \in S}

APIAnswers == Tuples(OfferedAttempts, AttemptOutcomes)

\* the loop with range(1, max_retries + 2)
RECURSIVE generate_attempts_one_more(_, _)
generate_attempts_one_more(api, attempt) ==
    IF attempt > max_retries + 1
    THEN [attempts |-> <<>>, sleeps |-> <<>>, outcome |-> "raised",
          error |-> "last_error", response |-> 0]
    ELSE IF api[attempt] = "ok"
    THEN [attempts |-> <<attempt>>, sleeps |-> <<>>, outcome |-> "returned",
          error |-> "none", response |-> attempt]
    ELSE IF api[attempt] \in {"rate_limit", "api_status"}
              /\ attempt # max_retries + 1
    THEN LET rest == generate_attempts_one_more(api, attempt + 1)
         IN  [rest EXCEPT !.attempts = <<attempt>> \o @,
                          !.sleeps = <<2 ^ attempt>> \o @]
    ELSE [attempts |-> <<attempt>>, sleeps |-> <<>>, outcome |-> "raised",
          error |-> api[attempt], response |-> 0]

\* for attempt in range(1, max_retries + 1), from attempt on: the attempts
\* made, the sleeps between them, and how the call ends; response is the
\* attempt whose message the AIResponse is built from
RECURSIVE generate_attempts(_, _)
generate_attempts(api, attempt) ==
    IF attempt > max_retries
    THEN \* for ... else: raise last_error
         [attempts |-> <<>>, sleeps |-> <<>>, outcome |-> "raised",
          error |-> "last_error", response |-> 0]
    ELSE IF api[attempt] = "ok"
    THEN \* break
         [attempts |-> <<attempt>>, sleeps |-> <<>>, outcome |-> "returned",
          error |-> "none", response |-> attempt]
    ELSE IF api[attempt] \in {"rate_limit", "api_status"}
              /\ attempt # max_retries
    THEN \* await asyncio.sleep(2 ** attempt), next attempt
         LET rest == generate_attempts(api, attempt + 1)
         IN  [rest EXCEPT !.attempts = <<attempt>> \o @,
                          !.sleeps = <<2 ^ attempt>> \o @]
    ELSE \* raise on the last attempt; other exceptions are not caught
         [attempts |-> <<attempt>>, sleeps |-> <<>>, outcome |-> "raised",
          error |-> api[attempt], response |-> 0]

AIService_generate(api) ==
    LET call == generate_attempts(api, 1)
    IN  /\ result' = [op |-> "ai_generate", args |-> api,
                      outcome |-> IF call.outcome = "returned" THEN "ok"
                                  ELSE "raised",
                      value |-> call, agent_calls |-> Len(call.attempts),
                      spent |-> 0, enqueued |-> <<>>]
        /\ UNCHANGED <<store, clients, audit_run, workers>>

AIGenerate == \E api \in APIAnswers : AIService_generate(api)

\* Completion Service calls, one after another
NextAIService == AIGenerate

SpecAIService == Init /\ [][NextAIService]_vars

\* the first Deliverable: an article of the known engagement
GenerateArticle ==
    /\ store = <<>>
    /\ \E g \in InvokeAgentResults : generate_deliverable("e1", "article", g)
    /\ UNCHANGED <<clients, audit_run, workers>>

\* the stages and the approval endpoints on one article
NextArticle ==
    \/ GenerateArticle
    \/ Review
    \/ Iterate
    \/ Submit
    \/ Approve
    \/ Reject

SpecArticle == Init /\ [][NextArticle]_vars

(***************************************************************************)
(* The stages under a caller that chains them: a Review of the Deliverable *)
(* after its Generation and after every Iteration that revised it, an      *)
(* Iteration after every Review that did not pass.  A task that raised is  *)
(* retried (self.retry); the caller enqueues nothing after a passing       *)
(* Review or an escalation.  The retry limits of the tasks are not         *)
(* modelled: a task is retried as long as it raises.                       *)
(***************************************************************************)
\* the Deliverable the last invocation was about
DriverTarget ==
    IF result.op = "generate" THEN result.value.deliverable_id
    ELSE result.args[1]

\* a Review is enqueued or being retried
ReviewPending ==
    \/ result.op = "generate" /\ result.outcome = "ok"
    \/ result.op = "iterate" /\ result.outcome = "ok"
            /\ result.value.status = "draft"
    \/ result.op = "review" /\ result.outcome = "retry"

\* an Iteration is enqueued or being retried
IterationPending ==
    \/ result.op = "review" /\ result.outcome = "ok" /\ ~result.value.passed
    \/ result.op = "iterate" /\ result.outcome = "retry"

DriverReview ==
    /\ ReviewPending
    /\ \E bv \in CheckResults(BrandVoiceScores), q \in CheckResults(QualityScores) :
            review_deliverable(DriverTarget, bv, q)
    /\ UNCHANGED <<clients, audit_run, workers>>

DriverIterate ==
    /\ IterationPending
    /\ \E fb \in Feedbacks :
        \E revised \in InvokeAgentIterationResults(OriginalBody(DriverTarget)) :
            iterate_deliverable(DriverTarget, fb, revised)
    /\ UNCHANGED <<clients, audit_run, workers>>

\* a Review whose two checks return
DriverReviewReturns == DriverReview /\ result'.outcome = "ok"

\* an Iteration that escalates, or whose agent call returns
DriverIterateReturns ==
    /\ DriverIterate
    /\ \/ result'.outcome = "ok"
       \/ result'.value.error = "TypeError"

NextDriver ==
    \/ GenerateArticle
    \/ DriverReview
    \/ DriverIterate

\* the agent calls of a retried task eventually return
SpecDriver ==
    /\ Init
    /\ [][NextDriver]_vars
    /\ WF_vars(DriverReviewReturns)
    /\ WF_vars(DriverIterateReturns)

(***************************************************************************)
(* Overlapping invocations.  review_deliverable and iterate_deliverable    *)
(* each load the row in their own session, await their agent calls and     *)
(* then assign columns of the object they loaded and commit.  No row lock  *)
(* and no version column is used, so the commit is an UPDATE of the        *)
(* columns the invocation changed, computed from the row as it was read.   *)
(* The first half of each task (up to the await) and the second half (from *)
(* the agent's answer to the commit) are separate steps here.              *)
(***************************************************************************)
\* invocations that may await their agent call at the same time
MaxInFlight == 2

\* Iterations that may be started and commit a revision
MaxOverlapRevisions == 2

\* the checks' answers offered to overlapping Reviews
OverlapBrandVoice == CheckResults({900})

OverlapQuality == CheckResults({600})

RemoveAt(seq, i) == SubSeq(seq, 1, i - 1) \o SubSeq(seq, i + 1, Len(seq))

\* the row after the UPDATE of an invocation that loaded it as read and
\* assigned the values of new to columns: the columns whose value it
\* changed are overwritten, the others keep what the table holds now
Written(current, read, new, columns) ==
    [f \in DOMAIN current |->
        IF f \in columns /\ new[f] # read[f] THEN new[f] ELSE current[f]]

\* iterate_deliverable up to the await of _invoke_agent_iteration; the
\* ceiling branch awaits nothing and commits at once
iterate_begin(deliverable_id, feedback) ==
    LET args == <<deliverable_id, feedback>>
    IN  IF deliverable_id \notin Ids
        THEN /\ result' = Failed("iterate", args, "retry", 0)
             /\ UNCHANGED <<store, workers>>
        ELSE LET deliverable     == store[deliverable_id]
                 iteration_count == stored_iteration_count(deliverable) + 1
             IN  IF over_ceiling(iteration_count)
                 THEN /\ store' = [store EXCEPT ![deliverable_id] =
                              Escalated(deliverable, iteration_count, feedback)]
                      /\ result' = Returned("iterate", args,
                              [deliverable_id  |-> deliverable_id,
                               iteration_count |-> iteration_count,
                               status          |-> "escalated"], 0)
                      /\ UNCHANGED workers
                 ELSE /\ workers' = [workers EXCEPT !.running = Append(@,
                              [op |-> "iterate", id |-> deliverable_id,
                               feedback |-> feedback, read |-> deliverable])]
                      /\ UNCHANGED <<store, result>>

\* iterate_deliverable from the answer of _invoke_agent_iteration on
iterate_finish(i, revised) ==
    LET w               == workers.running[i]
        args            == <<w.id, w.feedback>>
        deliverable     == w.read
        iteration_count == stored_iteration_count(deliverable) + 1
        agent_name      == iterate_agent_name(deliverable.type)
    IN  IF revised.raised
        THEN /\ result' = Failed("iterate", args, "retry", 1)
             /\ workers' = [workers EXCEPT !.running = RemoveAt(@, i)]
             /\ store' = store
        ELSE IF cost_sum_raises(deliverable)
        THEN /\ result' = Charged(
                     [Failed("iterate", args, "retry", 1)
                         EXCEPT !.value = [error |-> "TypeError"]],
                     revised.cost)
             /\ workers' = [workers EXCEPT !.running = RemoveAt(@, i)]
             /\ store' = store
        ELSE /\ store' = [store EXCEPT ![w.id] =
                     Written(@, deliverable,
                             Iterated(deliverable, iteration_count, w.feedback,
                                      revised),
                             {"body", "title", "status", "meta_data", "ai_cost"})]
             /\ result' = Charged(Returned("iterate", args,
                     [deliverable_id  |-> w.id,
                      iteration_count |-> iteration_count,
                      status          |-> "draft",
                      agent_used      |-> agent_name], 1),
                     revised.cost)
             /\ workers' = [running |-> RemoveAt(workers.running, i),
                            revisions |-> workers.revisions + 1]

\* review_deliverable up to the await of _check_brand_voice
review_begin(deliverable_id) ==
    IF deliverable_id \notin Ids
    THEN /\ result' = Failed("review", <<deliverable_id>>, "retry", 0)
         /\ UNCHANGED <<store, workers>>
    ELSE /\ workers' = [workers EXCEPT !.running = Append(@,
                 [op |-> "review", id |-> deliverable_id,
                  feedback |-> "none", read |-> store[deliverable_id]])]
         /\ UNCHANGED <<store, result>>

\* review_deliverable from the answers of the two checks on
review_finish(i, brand_voice_result, quality_result) ==
    LET w    == workers.running[i]
        args == <<w.id>>
    IN  /\ workers' = [workers EXCEPT !.running = RemoveAt(@, i)]
        /\ IF brand_voice_result.raised
           THEN /\ store' = store
                /\ result' = Failed("review", args, "retry", 1)
           ELSE IF quality_result.raised
           THEN /\ store' = store
                /\ result' = Charged(Failed("review", args, "retry", 2),
                                     brand_voice_result.cost)
           ELSE LET outcome  == ReviewOutcome[brand_voice_result.score,
                                              quality_result.score]
                    reviewed == Reviewed(w.read, brand_voice_result.score,
                                         quality_result.score)
                IN  /\ store' = [store EXCEPT ![w.id] =
                            Written(@, w.read, reviewed,
                                    {"review_notes", "status", "meta_data"})]
                    /\ result' = Charged(Returned("review", args,
                            [deliverable_id    |-> w.id,
                             combined_score    |-> outcome.combined_score,
                             brand_voice_score |-> brand_voice_result.score,
                             quality_score     |-> quality_result.score,
                             status            |-> reviewed.status,
                             passed            |-> outcome.passed], 2),
                            brand_voice_result.cost + quality_result.cost)

\* Iterations awaiting their agent call
IterationsRunning ==
    Cardinality({i \in 1..Len(workers.running) : workers.running[i].op = "iterate"})

IterateBegin ==
    /\ Len(workers.running) < MaxInFlight
    /\ workers.revisions + IterationsRunning < MaxOverlapRevisions
    /\ \E id \in RequestIds, fb \in Feedbacks : iterate_begin(id, fb)
    /\ UNCHANGED <<clients, audit_run>>

IterateFinish ==
    /\ \E i \in 1..Len(workers.running) :
        /\ workers.running[i].op = "iterate"
        /\ \E revised \in InvokeAgentIterationResults(workers.running[i].read.body) :
                iterate_finish(i, revised)
    /\ UNCHANGED <<clients, audit_run>>

ReviewBegin ==
    /\ Len(workers.running) < MaxInFlight
    /\ \E id \in RequestIds : review_begin(id)
    /\ UNCHANGED <<clients, audit_run>>

ReviewFinish ==
    /\ \E i \in 1..Len(workers.running) :
        /\ workers.running[i].op = "review"
        /\ \E bv \in OverlapBrandVoice, q \in OverlapQuality :
                review_finish(i, bv, q)
    /\ UNCHANGED <<clients, audit_run>>

\* the article the overlapping invocations work on: generated with either
\* cost, or not generated because the agent raised
GenerateOverlapped ==
    /\ store = <<>>
    /\ \E g \in {r \in InvokeAgentResults : r.raised \/ r.body = 1} :
            generate_deliverable("e1", "article", g)
    /\ UNCHANGED <<clients, audit_run, workers>>

\* one article, reviewed and iterated by invocations that may overlap
NextOverlap ==
    \/ GenerateOverlapped
    \/ IterateBegin
    \/ IterateFinish
    \/ ReviewBegin
    \/ ReviewFinish

SpecOverlap == Init /\ [][NextOverlap]_vars

\* full audit runs, one in flight at a time
NextAudit ==
    \/ FullAuditDelay
    \/ FullAuditBegin
    \/ FullAuditStep1
    \/ FullAuditStep2
    \/ FullAuditStep3
    \/ FullAuditStep4

SpecAudit == Init /\ [][NextAudit]_vars


(***************************************************************************)
(* Properties                                                              *)
(***************************************************************************)
\* the step is an invocation of op on the stored row id
Invoked(op, id) ==
    /\ result'.op = op
    /\ result'.args # <<>>
    /\ result'.args[1] = id

\* the state follows an invocation of op on the stored row id
After(op, id) ==
    /\ result.op = op
    /\ result.args # <<>>
    /\ result.args[1] = id

\* C1: after exactly 5 successful Iteration Stage calls, the 6th call leaves
\* body unchanged, makes no agent call and sets the persisted status to
\* escalated.
C1_SixthIterationEscalates ==
    [][\A id \in Ids :
        (stored_iteration_count(store[id]) = MAX_ITERATIONS /\ Invoked("iterate", id))
            => /\ store'[id].body = store[id].body
               /\ result'.agent_calls = 0
               /\ store'[id].status = "escalated"]_vars

\* C2: the persisted iteration_count of every Deliverable is at most
\* MAX_ITERATIONS (5) in every reachable state.
C2_IterationCountBounded ==
    \A id \in Ids : stored_iteration_count(store[id]) <= 5

\* a Deliverable at the ceiling on which a further Iteration was refused
C2_Witness ==
    \E id \in Ids :
        /\ stored_iteration_count(store[id]) = 5
        /\ After("iterate", id)
        /\ result.outcome = "ok"
        /\ result.value.iteration_count = 6


ReviewedScores == <<result.value.brand_voice_score, result.value.quality_score>>

AfterReview(id) == After("review", id) /\ result.outcome = "ok"

\* C4: for every pair of scores the Review Stage sets in_review exactly
\* when 0.4 * brand_voice_score + 0.6 * quality_score >= 7.0 and draft
\* exactly when it is below; a combined score of exactly 7.0 passes.
C4_ExactThreshold ==
    \A id \in Ids :
        AfterReview(id)
            => LET exact == 4 * ReviewedScores[1] + 6 * ReviewedScores[2]
               IN  /\ store[id].status = "in_review" <=> exact >= 7000
                   /\ store[id].status = "draft" <=> exact < 7000

\* C5 as stated: brand voice 10 with quality 5.83 gives in_review, and with
\* quality 5.82 gives draft.
C5_SpecBoundary ==
    \A id \in Ids :
        AfterReview(id)
            => /\ ReviewedScores = <<1000, 583>> => store[id].status = "in_review"
               /\ ReviewedScores = <<1000, 582>> => store[id].status = "draft"

\* C5 as amended: brand voice 10 with quality 5.83 and with quality 5.82
\* both give in_review; with brand voice 10 the boundary is quality 5.00
\* (in_review), and quality 4.99 gives draft.
C5_Boundary ==
    \A id \in Ids :
        AfterReview(id)
            => /\ ReviewedScores = <<1000, 583>> => store[id].status = "in_review"
               /\ ReviewedScores = <<1000, 582>> => store[id].status = "in_review"
               /\ ReviewedScores = <<1000, 500>> => store[id].status = "in_review"
               /\ ReviewedScores = <<1000, 499>> => store[id].status = "draft"

\* a review with brand voice 10 and quality 5.82
C5_Witness ==
    \E id \in Ids : AfterReview(id) /\ ReviewedScores = <<1000, 582>>


\* the step commits a review of the stored row id
ReviewCommits(id) == Invoked("review", id) /\ result'.outcome = "ok"

\* C6 as stated: every committed Review appends exactly one entry to the
\* score history, so that no earlier entry is overwritten or lost.
C6_ReviewAppendsEntry ==
    [][\A id \in Ids :
        ReviewCommits(id)
            => /\ Len(score_history(store'[id])) = Len(score_history(store[id])) + 1
               /\ \A k \in 1..Len(score_history(store[id])) :
                      score_history(store'[id])[k] = score_history(store[id])[k]]_vars

\* C6 as amended: every committed Review stores exactly one entry, that of
\* its own scores, in place of the entry of the review before it.
C6_ReviewReplacesEntry ==
    [][\A id \in Ids :
        ReviewCommits(id)
            => score_history(store'[id]) =
                   <<[brand_voice_score |-> result'.value.brand_voice_score,
                      quality_score     |-> result'.value.quality_score,
                      combined_score    |-> result'.value.combined_score]>>]_vars

\* a row reviewed after an iteration: it holds one entry, that of the review
C6_Witness ==
    \E id \in Ids :
        /\ AfterReview(id)
        /\ Len(score_history(store[id])) = 1
        /\ stored_iteration_count(store[id]) >= 1

\* C7: the Review Stage never changes a Deliverable's body, whether the
\* invocation commits or fails.
C7_ReviewKeepsBody ==
    [][result'.op = "review"
        => \A id \in Ids : store'[id].body = store[id].body]_vars

\* a committed review
C7_Witness == \E id \in Ids : AfterReview(id) /\ store[id].review_notes.kind = "review"

\* C8: a Review whose brand voice check or quality gate fails persists
\* nothing, and a Review that writes has made both sub-check calls.
C8_ReviewAllOrNothing ==
    [][result'.op = "review"
        => /\ result'.outcome # "ok" => store' = store
           /\ store' # store => result'.agent_calls = 2]_vars

\* a review whose quality gate failed after the brand voice check returned
C8_Witness ==
    \E id \in Ids :
        After("review", id) /\ result.outcome = "retry" /\ result.agent_calls = 2

\* the state follows a successful generation of a kind AGENT_MAP lacks
GeneratedUnknownKind ==
    /\ result.op = "generate"
    /\ result.outcome = "ok"
    /\ result.args[2] \notin DOMAIN AGENT_MAP_generate

\* the state follows a revision of a row whose kind AGENT_MAP lacks
IteratedUnknownKind(id) ==
    /\ After("iterate", id)
    /\ result.outcome = "ok"
    /\ result.value.status = "draft"
    /\ store[id].type \notin DOMAIN AGENT_MAP_iterate

\* C9 as stated: Generation and Iteration of a kind without an entry in the
\* lookup table fail and create or change no Deliverable.
C9_UnknownKindFails ==
    /\ ~GeneratedUnknownKind
    /\ \A id \in Ids : ~IteratedUnknownKind(id)

\* C9 as amended: Generation and Iteration of a kind without an entry in
\* the lookup table proceed with the default agent content_engine.
C9_UnknownKindDefaults ==
    /\ GeneratedUnknownKind
        => /\ result.value.agent_used = "content_engine"
           /\ store[result.value.deliverable_id].ai_agent_used = "content_engine"
           /\ store[result.value.deliverable_id].type = result.args[2]
    /\ \A id \in Ids :
        IteratedUnknownKind(id) => result.value.agent_used = "content_engine"

\* a Deliverable of an unknown kind, generated
C9_Witness == GeneratedUnknownKind

\* C10: a second Generation for the same request finds the record of the
\* first and is a no-op, so the request yields one Deliverable record.
C10_SecondGenerationNoOp ==
    [][(/\ result.op = "generate"
        /\ result.outcome = "ok"
        /\ result'.op = "generate"
        /\ result'.args = result.args)
            => store' = store]_vars

\* C11: delivering the same Iteration Stage message a second time (same
\* deliverable id and feedback) leaves the Deliverable as the first delivery
\* left it: iteration_count, version log, body and cost do not advance again.
C11_RedeliveredIterationNoOp ==
    [][\A id \in Ids :
        (/\ After("iterate", id)
         /\ result.outcome = "ok"
         /\ Invoked("iterate", id)
         /\ result'.args = result.args)
            => store'[id] = store[id]]_vars

\* C12: once the Iteration Stage has taken the ceiling path for a
\* Deliverable (its note is the escalation note), no Generation, Review or
\* Iteration invocation changes that Deliverable's status.
C12_EscalationTerminal ==
    [][\A id \in Ids :
        (/\ store[id].review_notes.kind = "escalation"
         /\ result'.op \in {"generate", "review", "iterate"})
            => store'[id].status = store[id].status]_vars

\* the place of a status along draft, in_review, approved
StatusRank(status) ==
    CASE status = "draft" -> 0
      [] status = "in_review" -> 1
      [] status = "approved" -> 2
      [] OTHER -> 0 - 1

\* C13: no operation moves a Deliverable's status backward along draft,
\* in_review, approved; only a rejected Deliverable may return to draft.
C13_StatusMonotonic ==
    [][\A id \in Ids :
        (store[id].status # "rejected" /\ store'[id].status # "rejected")
            => StatusRank(store'[id].status) >= StatusRank(store[id].status)]_vars

\* meta.get("versions", [])
stored_versions(deliverable) == DictGet(deliverable.meta_data, "versions", <<>>)

\* the step is an Iteration of the stored row id that commits a revision
IterationRevises(id) ==
    /\ Invoked("iterate", id)
    /\ result'.outcome = "ok"
    /\ result'.value.status = "draft"

\* C14: every successful Iteration increments iteration_count by one,
\* appends one version-log entry holding the previous body excerpt and the
\* feedback, replaces body by the revised text and sets status draft; the
\* version log is as long as iteration_count and its k-th entry records
\* iteration number k-1.
C14_IterationAdvancesOnce ==
    [][\A id \in Ids :
        /\ IterationRevises(id)
            => /\ stored_iteration_count(store'[id]) =
                      stored_iteration_count(store[id]) + 1
               /\ stored_versions(store'[id]) =
                      Append(stored_versions(store[id]),
                          [iteration    |-> stored_iteration_count(store[id]),
                           body_excerpt |-> body_excerpt(store[id].body),
                           feedback     |-> result'.args[2]])
               /\ store'[id].body = store[id].body + 1
               /\ store'[id].status = "draft"
        /\ Len(stored_versions(store'[id])) = stored_iteration_count(store'[id])
        /\ \A k \in 1..Len(stored_versions(store'[id])) :
               stored_versions(store'[id])[k].iteration = k - 1]_vars

\* a Deliverable revised twice: two entries, numbered 0 and 1
C14_Witness ==
    \E id \in Ids :
        /\ After("iterate", id)
        /\ result.outcome = "ok"
        /\ result.value.status = "draft"
        /\ stored_iteration_count(store[id]) = 2
        /\ Len(stored_versions(store[id])) = 2

\* the step is an Iteration of the stored row id, below the ceiling, whose
\* agent call returned
IterationCallReturned(id) ==
    /\ Invoked("iterate", id)
    /\ result'.agent_calls = 1
    /\ (result'.outcome = "ok" \/ result'.value.error = "TypeError")

C16_ReviewAddsCost ==
    [][\A id \in Ids :
        ReviewCommits(id)
            => store'[id].ai_cost = store[id].ai_cost + result'.spent]_vars

\* C16 as amended: a committed Review leaves the cost of the Deliverable as
\* it was, whatever its two calls were charged.
C16_ReviewLeavesCost ==
    [][\A id \in Ids :
        ReviewCommits(id) => store'[id].ai_cost = store[id].ai_cost]_vars

\* a committed review whose calls were charged more than the row's cost
C16_Witness ==
    \E id \in Ids :
        /\ AfterReview(id)
        /\ result.spent = 300
        /\ store[id].ai_cost = 0

\* the helpers and the Deliverable types of the stages, in order
StageHelpers ==
    <<"_generate_full_audit", "_run_strategy_architect", "_build_proposal",
      "_run_quality_gate">>

StageTypes == <<"audit_report", "strategy_document", "proposal">>

\* the position of the run before each of its four steps
StageSteps == <<"step1", "step2", "step3", "step4">>

\* C17: in every audit run the stages are called in the order audit,
\* strategy, proposal, quality_gate; a stage is called only after every
\* stage before it has returned its output; the strategy stage is given the
\* whole output of the audit stage, the proposal stage the outputs of both,
\* and the quality gate the three Deliverables made from them; while the run
\* is in flight its session holds one Deliverable per finished stage.
C17_StagesInOrder ==
    LET calls == audit_run.calls
    IN  /\ Len(calls) <= 4
        /\ \A k \in 1..Len(calls) :
            /\ calls[k].helper = StageHelpers[k]
            /\ \A j \in 1..(k - 1) : ~calls[j].raised
            /\ k \in {2, 3}
                => calls[k].context = [j \in 1..(k - 1) |-> calls[j].output]
            /\ k = 4
                => /\ Len(calls[k].context) = 3
                   /\ \A j \in 1..3 :
                        /\ calls[k].context[j].type = StageTypes[j]
                        /\ calls[k].context[j].body = calls[j].output.markdown
                        /\ calls[k].context[j].meta_data =
                               calls[j].output.structured_data
        /\ audit_run.pc \in {"step1", "step2", "step3", "step4"}
            => /\ Len(audit_run.session) = Len(calls)
               /\ audit_run.pc = StageSteps[Len(calls) + 1]
               /\ \A j \in 1..Len(calls) :
                    audit_run.session[j].type = StageTypes[j]

\* a run whose proposal stage was called with both earlier outputs
C17_Witness ==
    /\ Len(audit_run.calls) >= 3
    /\ audit_run.calls[3].context = <<audit_run.calls[1].output,
                                      audit_run.calls[2].output>>
    /\ audit_run.calls[1].output.markdown = 2

\* the state follows the commit of a full audit run
AuditCompleted == result.op = "run_full_audit" /\ result.outcome = "ok"

\* the rows the completed run created
RunRows == {id \in Ids : id >= result.value.audit_id}

\* C18 as stated: a completed audit run leaves four Deliverables, all with
\* the same status: in_review when the quality gate score is at least 7.0
\* and draft when it is below.
C18_FourDeliverablesGated ==
    AuditCompleted
        => /\ Cardinality(RunRows) = 4
           /\ \A id \in RunRows :
                store[id].status = (IF result.value.quality_score >= 700
                                    THEN "in_review" ELSE "draft")

\* C18 as amended: a completed audit run leaves three Deliverables (audit
\* report, strategy document, proposal; the quality gate produces none),
\* all with the same status: in_review when the quality gate score is at
\* least 7.0 (7.0 included) and draft when it is below.
C18_ThreeDeliverablesGated ==
    AuditCompleted
        => /\ RunRows = {result.value.audit_id, result.value.strategy_id,
                         result.value.proposal_id}
           /\ Cardinality(RunRows) = 3
           /\ store[result.value.audit_id].type = "audit_report"
           /\ store[result.value.strategy_id].type = "strategy_document"
           /\ store[result.value.proposal_id].type = "proposal"
           /\ \A id \in RunRows :
                store[id].status = (IF result.value.quality_score >= 700
                                    THEN "in_review" ELSE "draft")

\* a run completed with a quality gate score of exactly 7.0
C18_Witness ==
    /\ AuditCompleted
    /\ result.value.quality_score = 700
    /\ \A id \in RunRows : store[id].status = "in_review"

\* the step is a run_full_audit attempt that raises: the client is missing
\* or the last helper call raised
FullAuditRaises ==
    /\ audit_run.pc # "idle"
    /\ audit_run'.pc \in {"queued", "idle"}
    /\ audit_run' # audit_run
    /\ \/ audit_run'.calls = <<>>
       \/ audit_run'.calls[Len(audit_run'.calls)].raised

\* C19 as stated: a failure of any audit stage stops the run in a recorded
\* stage_failed state; the run is not retried from stage 1 automatically.
C19_FailureStopsRun ==
    [][FullAuditRaises
        => /\ audit_run'.pc = "idle"
           /\ result'.outcome = "stage_failed"]_vars

\* C19 as amended: a failure of any audit stage raises; while fewer than 2
\* retries were made the task is queued again and the run starts over from
\* stage 1, and after the second retry the task fails; neither case records
\* anything in the store or in the client's status.
C19_FailureRetriesRun ==
    [][/\ FullAuditRaises
            => /\ store' = store
               /\ clients' = clients
               /\ audit_run'.session = <<>>
               /\ IF audit_run.retries < 2
                  THEN /\ audit_run'.pc = "queued"
                       /\ audit_run'.retries = audit_run.retries + 1
                       /\ result'.outcome = "retry"
                  ELSE /\ audit_run'.pc = "idle"
                       /\ result'.outcome = "failed"
       /\ audit_run.pc = "queued"
            => /\ audit_run.session = <<>>
               /\ audit_run'.pc \in {"queued", "idle", "step1"}]_vars

\* a run on its second retry that has redone stage 1
C19_Witness ==
    /\ audit_run.retries = 2
    /\ audit_run.pc = "step2"
    /\ Len(audit_run.session) = 1

\* C20 as stated: when stage k fails, the Deliverables of the stages
\* before k are stored afterwards.
C20_EarlierArtifactsStored ==
    [][FullAuditRaises
        => /\ Len(store') = Len(store) + Len(audit_run.session)
           /\ \A j \in 1..Len(audit_run.session) :
                store'[Len(store) + j].body = audit_run.session[j].body]_vars

\* C20 as amended: the coordinator keeps each stage's Deliverable in its
\* session and stores them with the one commit after the quality gate: when
\* stage k fails, none of the Deliverables of the stages before k is stored,
\* and the retry starts from stage 1 with an empty session.
C20_EarlierArtifactsDiscarded ==
    [][/\ FullAuditRaises
            => /\ store' = store
               /\ audit_run'.session = <<>>
               /\ audit_run'.audit_data = NoAuditRun.audit_data
               /\ audit_run'.strategy = NoAuditRun.strategy
       /\ store' # store
            => /\ audit_run.pc = "step4"
               /\ Len(store') = Len(store) + 3]_vars

\* a run whose proposal stage failed after two Deliverables were flushed:
\* the store holds neither
C20_Witness ==
    /\ audit_run.pc = "queued"
    /\ Len(audit_run.calls) = 3
    /\ audit_run.calls[3].raised
    /\ store = <<>>

\* the step is a Generation or an Iteration whose agent call raised
AgentCallFails(op) ==
    /\ result'.op = op
    /\ result'.outcome = "retry"
    /\ result'.agent_calls = 1
    /\ result'.value.error # "TypeError"

\* C21: when the agent call of a Generation or of an Iteration fails,
\* nothing is committed: no Deliverable is created, and status, body,
\* iteration_count, version log and cost of the row stay as they were.
C21_FailedCallCommitsNothing ==
    [][(AgentCallFails("generate") \/ AgentCallFails("iterate"))
        => /\ Len(store') = Len(store)
           /\ \A id \in Ids :
                /\ store'[id].status = store[id].status
                /\ store'[id].body = store[id].body
                /\ store'[id].meta_data = store[id].meta_data
                /\ store'[id].ai_cost = store[id].ai_cost]_vars

\* an Iteration whose agent call raised, on a row revised before
C21_Witness ==
    \E id \in Ids :
        /\ After("iterate", id)
        /\ result.outcome = "retry"
        /\ result.value.error = "retry"
        /\ result.agent_calls = 1
        /\ stored_iteration_count(store[id]) = 1

\* the API answers that make the loop go on to another attempt
Retryable == {"rate_limit", "api_status"}

\* C22: one AIService.generate call makes attempts 1, 2, ... and at most 3
\* of them; it goes on to the next attempt only after a rate-limit or other
\* API status error on attempt 1 or 2, and does so whenever that happens;
\* it returns exactly when the attempt it stops at succeeded, with that
\* attempt's response, and raises that attempt's error otherwise (so it
\* raises when attempt 3 fails).
C22_AtMostThreeAttempts ==
    result.op = "ai_generate" =>
        LET api  == result.args
            call == result.value
            n    == Len(call.attempts)
        IN  /\ n \in 1..3
            /\ \A i \in 1..n : call.attempts[i] = i
            /\ \A i \in 1..(n - 1) : api[i] \in Retryable
            /\ n < 3 => api[n] \notin Retryable
            /\ call.outcome = "returned" <=> api[n] = "ok"
            /\ call.outcome = "returned" => call.response = n
            /\ call.outcome # "returned" =>
                    /\ call.outcome = "raised"
                    /\ call.error = api[n]
                    /\ call.response = 0
            /\ call.sleeps = [i \in 1..(n - 1) |-> 2 ^ i]

\* two retried errors, then a third that is raised, with a success on offer
\* had there been a fourth attempt
C22_Witness ==
    /\ result.op = "ai_generate"
    /\ result.args[1] = "rate_limit"
    /\ result.args[2] = "api_status"
    /\ result.args[3] = "rate_limit"
    /\ result.args[4] = "ok"
    /\ result.value.outcome = "raised"
    /\ Len(result.value.attempts) = 3

\* C23: an Iteration that revises a Deliverable resolves the agent that
\* produced it: the agent_used it returns is the row's ai_agent_used.
C23_IterationResolvesProducer ==
    \A id \in Ids :
        (/\ After("iterate", id)
         /\ result.outcome = "ok"
         /\ result.agent_calls = 1)
            => result.value.agent_used = store[id].ai_agent_used

\* combined is 7.2 when written with one decimal
ShownAsSevenPointTwo(combined) ==
    /\ FGeq(combined, FFromDecimal(715, 100))
    /\ FLess(combined, FFromDecimal(725, 100))

C25_IterationEnqueuesNothing ==
    result.op = "iterate" => result.enqueued = <<>>

\* an Iteration has taken the escalation path
C25_Witness ==
    \E id \in Ids :
        /\ After("iterate", id)
        /\ result.outcome = "ok"
        /\ result.value.status = "escalated"
        /\ stored_iteration_count(store[id]) = MAX_ITERATIONS

\* the step is a call of the endpoint op on the stored row id: it succeeds
\* and stores new_status when the row's status is in allowed, and fails
\* with HTTP 400 and changes nothing otherwise
EndpointGuarded(op, id, allowed, new_status) ==
    Invoked(op, id)
        => IF store[id].status \in allowed
           THEN /\ result'.outcome = "ok"
                /\ store' = [store EXCEPT ![id].status = new_status]
           ELSE /\ result'.outcome = "http400"
                /\ store' = store

C28_ReturnedStatusPersisted ==
    result.outcome = "ok" =>
        /\ result.op = "generate"
            => store[result.value.deliverable_id].status = result.value.status
        /\ result.op \in {"review", "iterate"}
            => store[result.args[1]].status = result.value.status

\* the rows of the store come in runs of three with one status each
CommittedRunsUniform ==
    /\ Len(store) % 3 = 0
    /\ \A k \in 0..((Len(store) \div 3) - 1) :
        /\ store[3 * k + 1].status \in {"in_review", "draft"}
        /\ store[3 * k + 2].status = store[3 * k + 1].status
        /\ store[3 * k + 3].status = store[3 * k + 1].status

\* the step is the commit that ends a run: it follows the quality gate,
\* adds the run's three Deliverables with one status and sets the client's
\* status to match
AuditCommit ==
    /\ audit_run.pc = "step4"
    /\ audit_run'.pc = "idle"
    /\ result'.op = "run_full_audit"
    /\ result'.outcome = "ok"
    /\ Len(store') = Len(store) + 3
    /\ \A id \in Ids : store'[id] = store[id]
    /\ \E status \in {"in_review", "draft"} :
        /\ \A id \in (Len(store) + 1)..(Len(store) + 3) :
                store'[id].status = status
        /\ result'.value.status = status
        /\ clients'[audit_run.client_id] =
                (IF status = "in_review" THEN "audit_delivered"
                 ELSE "audit_requested")

\* C30: a full-audit run commits once, after the quality gate.  The store
\* and the client statuses change in no other step of a run, so none of the
\* run's Deliverables is visible before; the commit adds all three with one
\* common status and sets the client's status to audit_delivered exactly
\* when that status is in_review, to audit_requested otherwise; no state of
\* the store shows a run's Deliverables with different statuses.
C30_SingleCommit ==
    [][/\ (store' # store \/ clients' # clients) => AuditCommit
       /\ CommittedRunsUniform']_vars

\* a second run was committed with a failing quality gate
C30_Witness ==
    /\ AuditCompleted
    /\ Len(store) = 6
    /\ \A id \in RunRows : store[id].status = "draft"
    /\ clients[result.value.client_id] = "audit_requested"

\* the caller has nothing more to enqueue: the last Review passed, or the
\* last Iteration took the escalation path
DriverDone ==
    \/ result.op = "review" /\ result.outcome = "ok" /\ result.value.passed
    \/ result.op = "iterate" /\ result.outcome = "ok"
            /\ result.value.status = "escalated"

C29_CountMatchesRevisions ==
    [][\A id \in Ids :
        /\ stored_iteration_count(store'[id]) >= stored_iteration_count(store[id])
        /\ stored_iteration_count(store'[id]) = workers'.revisions
        /\ workers'.revisions <= MAX_ITERATIONS]_vars

\* the step is the second half of an invocation on row id that read the
\* row as the store still holds it
WritesUnoverlapped(id) ==
    \E i \in 1..Len(workers.running) :
        /\ workers'.running = RemoveAt(workers.running, i)
        /\ workers.running[i].id = id
        /\ workers.running[i].read = store[id]

\* C29 as amended: a Review or an Iteration that no other write to the
\* Deliverable overlaps (the row is still as the invocation read it) never
\* lowers iteration_count and raises it by one exactly when it commits a
\* revised body.
C29_UnoverlappedCountMatches ==
    [][\A id \in Ids :
        WritesUnoverlapped(id)
            => stored_iteration_count(store'[id]) - stored_iteration_count(store[id])
                    = workers'.revisions - workers.revisions]_vars

\* a Review that nothing overlapped has committed on a Deliverable revised
\* twice, by two Iterations that did not overlap either
C29_Witness ==
    \E id \in Ids :
        /\ After("review", id)
        /\ result.outcome = "ok"
        /\ workers.running = <<>>
        /\ workers.revisions = 2
        /\ stored_iteration_count(store[id]) = 2

====
